---------------------------- MODULE Spec2Model ----------------------------
(***************************************************************************)
(* Model of the simulation part of ABCde.py (lines 14-89): the six inputs, *)
(* the module-level simulation state, record_state, the bounded for-loop   *)
(* with its push / fill / revert / else branches, and the P&L summary.     *)
(*                                                                         *)
(* Numbers.  The script computes with floats.  Every quantity the loop     *)
(* computes from inputs on the half-unit grid of the widgets is a multiple *)
(* of 1/20: quotes are halves, a mid price (bid + ask) / 2 is a quarter,   *)
(* and fair_price * target_multiplier with the multiplier in tenths is a   *)
(* twentieth.  Prices are therefore integers counting twentieths, the      *)
(* multiplier is an integer counting tenths, and times are integers        *)
(* counting tenths (so that time + 0.1 is time + 1).  On the input sets     *)
(* below the script's float comparisons (lines 54, 60) give the same       *)
(* outcome as this exact arithmetic.                                       *)
(***************************************************************************)
EXTENDS Integers, Sequences, FiniteSets

\* n currency units, in twentieths.
Px(n) == 20 * n

\* k half units (the step of the number_input widgets), in twentieths.
Halves(k) == 10 * k

\* Python's None, and a present value v.
None == << >>
Some(v) == << v >>

\* Largest push step of the model, in half units (0.5 .. MaxPushHalves / 2).
MaxPushHalves == 4

\* st.number_input("Fair Value of Option", value=40.0, min_value=1.0)
FairValues == {Px(1), Px(40)}

\* st.number_input("Initial Bid (Algo Buyer)", value=20.0, min_value=0.0)
InitialBids == {Px(0), Px(20), Px(21)}

\* st.number_input("Initial Ask (Algo Seller)", value=100.0, min_value=1.0)
InitialAsks == {Px(1), Px(100), Px(138)}

\* st.number_input("Human Buy Order Price", value=21.0, min_value=1.0)
HumanLimitPrices == {Px(1), Px(15), Px(20), Px(21), Px(22)}

\* st.number_input("Algo Push Step", value=2.0, min_value=0.5, step=0.5)
PushSteps == {Halves(k) : k \in 1..MaxPushHalves}

\* st.slider("Target Sell (x Fair Value)", 1.0, 2.0, 1.2), in tenths.
TargetMultipliers == 10..20

\* max_steps = 15
max_steps == 15

VARIABLES
    fair_price, initial_bid, initial_ask,        \* the inputs (lines 17-24)
    human_limit_price, push_step, target_multiplier,
    time,                \* in tenths
    step,                \* the loop variable; 0 before the first iteration
    orderbook_history,   \* sequence of snapshots
    trade_history,       \* sequence of trades
    best_bid, best_ask,
    human_order,
    target_price,
    filled,
    mid,                 \* None until the loop assigns it
    fill_price, pnl,     \* None until the summary assigns them
    pc,                  \* "loop", "summary" (after the loop), "done"
    pushes               \* history variable: the times at which the push
                         \* branch (lines 55-57) ran

vars == << fair_price, initial_bid, initial_ask, human_limit_price, push_step,
           target_multiplier, time, step, orderbook_history, trade_history,
           best_bid, best_ask, human_order, target_price, filled, mid,
           fill_price, pnl, pc, pushes >>

inputs == << fair_price, initial_bid, initial_ask, human_limit_price,
             push_step, target_multiplier >>

-----------------------------------------------------------------------------
(* The pure parts of the script. *)

\* (bid + ask) / 2, lines 44, 52, 59.  Quotes are halves, so this is exact.
MidPrice(bid, ask) == (bid + ask) \div 2

\* target_price = fair_price * target_multiplier, line 35 (multiplier in
\* tenths; fair_price is a multiple of 10 twentieths, so this is exact).
TargetPrice(fair, mult) == (fair * mult) \div 10

\* line 33
HumanOrder(price) ==
    [type |-> "limit_buy", price |-> price, size |-> 1, filled |-> 0]

\* Snapshot with the open test written <= : the quote never disappears.
Snapshot_OpenWhenFull(t, bid, ask, human) ==
    [time      |-> t,
     best_bid  |-> bid,
     best_ask  |-> ask,
     mid_price |-> MidPrice(bid, ask),
     human_bid |-> IF human.filled <= human.size THEN Some(human.price)
                                                 ELSE None]

\* The dictionary record_state appends, lines 40-46.
Snapshot(t, bid, ask, human) ==
    [time      |-> t,
     best_bid  |-> bid,
     best_ask  |-> ask,
     mid_price |-> MidPrice(bid, ask),
     human_bid |-> IF human.filled < human.size THEN Some(human.price)
                                                ELSE None]

\* record_state, lines 39-46.
record_state(history, t, bid, ask, human) ==
    Append(history, Snapshot(t, bid, ask, human))

\* The push condition with >= for > .
PushCondition_Geq(human, bid, f) == human.price >= bid /\ ~f

\* The push condition without the comparison against the best bid.
PushCondition_NoBidTest(human, bid, f) == ~f

\* line 54
PushCondition(human, bid, f) == human.price > bid /\ ~f

\* The pushed bid computed from the previous bid, as the ask is.
PushedBid_Compounds(human, bid, ps) == bid + ps

\* line 55
PushedBid(human, bid, ps) == human.price + ps

\* The ask left where it was.
PushedAsk_NoStep(ask, ps) == ask

\* line 56
PushedAsk(ask, ps) == ask + ps

\* line 60
FillCondition(m, target) == m >= target

\* The trade executed at the mid price that triggered it.
SellPrice_Mid(target, m) == m

\* line 61
SellPrice(target, m) == target

\* The dictionary appended to trade_history, lines 62-68.
Trade(t, price) ==
    [time |-> t, buyer |-> "human", seller |-> "algo",
     price |-> price, size |-> 1]

\* The order's filled quantity left untouched by the fill.
FillOrder_Forgets(human) == human

\* line 69
FillOrder(human) == [human EXCEPT !.filled = 1]

\* The revert snapshot stamped with the next whole step.
RevertTime_NextStep(t) == t + 10

\* time + 0.1, line 73
RevertTime(t) == t + 1

\* The loop running one iteration too many.
LoopEnds_OffByOne(s) == s = max_steps + 1

\* range(1, max_steps + 1) is exhausted after the iteration with this step.
LoopEnds(s) == s = max_steps

-----------------------------------------------------------------------------
\* Lines 27-48: the state after the initial record_state call.
Init ==
    /\ fair_price \in FairValues
    /\ initial_bid \in InitialBids
    /\ initial_ask \in InitialAsks
    /\ human_limit_price \in HumanLimitPrices
    /\ push_step \in PushSteps
    /\ target_multiplier \in TargetMultipliers
    /\ time = 0
    /\ step = 0
    /\ trade_history = << >>
    /\ best_bid = initial_bid
    /\ best_ask = initial_ask
    /\ human_order = HumanOrder(human_limit_price)
    /\ target_price = TargetPrice(fair_price, target_multiplier)
    /\ filled = FALSE
    /\ orderbook_history =
          record_state(<< >>, 0, initial_bid, initial_ask,
                       HumanOrder(human_limit_price))
    /\ mid = None
    /\ fill_price = None
    /\ pnl = None
    /\ pc = "loop"
    /\ pushes = << >>

\* The fill branch without its stop: filled is not set and the loop is not
\* left, so the reverted quotes meet the push condition again.
PushFill_NoStop ==
    /\ pc = "loop"
    /\ PushCondition(human_order, best_bid, filled)
    /\ LET t     == time + 10
           bid   == PushedBid(human_order, best_bid, push_step)
           ask   == PushedAsk(best_ask, push_step)
           m     == MidPrice(bid, ask)
           human == FillOrder(human_order)
       IN  /\ FillCondition(m, target_price)
           /\ time' = t
           /\ step' = step + 1
           /\ mid' = Some(m)
           /\ trade_history' =
                 Append(trade_history, Trade(t, SellPrice(target_price, m)))
           /\ human_order' = human
           /\ filled' = filled
           /\ best_bid' = initial_bid
           /\ best_ask' = initial_ask
           /\ orderbook_history' =
                 record_state(
                     record_state(orderbook_history, t, bid, ask, human_order),
                     RevertTime(t), initial_bid, initial_ask, human)
           /\ pushes' = Append(pushes, t)
    /\ pc' = IF LoopEnds(step + 1) THEN "summary" ELSE "loop"
    /\ UNCHANGED << inputs, target_price, fill_price, pnl >>

\* One iteration of the loop taking the push branch and then the fill
\* branch: lines 51-74.
PushFill ==
    /\ pc = "loop"
    /\ PushCondition(human_order, best_bid, filled)
    /\ LET t     == time + 10
           bid   == PushedBid(human_order, best_bid, push_step)
           ask   == PushedAsk(best_ask, push_step)
           m     == MidPrice(bid, ask)
           human == FillOrder(human_order)
       IN  /\ FillCondition(m, target_price)
           /\ time' = t
           /\ step' = step + 1
           /\ mid' = Some(m)
           /\ trade_history' =
                 Append(trade_history, Trade(t, SellPrice(target_price, m)))
           /\ human_order' = human
           /\ filled' = TRUE
           /\ best_bid' = initial_bid
           /\ best_ask' = initial_ask
           /\ orderbook_history' =
                 record_state(
                     record_state(orderbook_history, t, bid, ask, human_order),
                     RevertTime(t), initial_bid, initial_ask, human)
           /\ pushes' = Append(pushes, t)
    /\ pc' = "summary"
    /\ UNCHANGED << inputs, target_price, fill_price, pnl >>

\* One iteration taking the push branch without a fill: lines 51-60.
PushNoFill ==
    /\ pc = "loop"
    /\ PushCondition(human_order, best_bid, filled)
    /\ LET t   == time + 10
           bid == PushedBid(human_order, best_bid, push_step)
           ask == PushedAsk(best_ask, push_step)
           m   == MidPrice(bid, ask)
       IN  /\ ~FillCondition(m, target_price)
           /\ time' = t
           /\ step' = step + 1
           /\ mid' = Some(m)
           /\ best_bid' = bid
           /\ best_ask' = ask
           /\ orderbook_history' =
                 record_state(orderbook_history, t, bid, ask, human_order)
           /\ pushes' = Append(pushes, t)
    /\ pc' = IF LoopEnds(step + 1) THEN "summary" ELSE "loop"
    /\ UNCHANGED << inputs, trade_history, human_order, target_price, filled,
                    fill_price, pnl >>

\* One iteration taking the else branch: lines 51-54, 75-76.
NoPush ==
    /\ pc = "loop"
    /\ ~PushCondition(human_order, best_bid, filled)
    /\ time' = time + 10
    /\ step' = step + 1
    /\ mid' = Some(MidPrice(best_bid, best_ask))
    /\ orderbook_history' =
          record_state(orderbook_history, time + 10, best_bid, best_ask,
                       human_order)
    /\ pc' = IF LoopEnds(step + 1) THEN "summary" ELSE "loop"
    /\ UNCHANGED << inputs, trade_history, best_bid, best_ask, human_order,
                    target_price, filled, fill_price, pnl, pushes >>

\* Human P&L, lines 83-89 (trades_df.empty is trade_history = []).
Summary ==
    /\ pc = "summary"
    /\ IF trade_history # << >>
       THEN /\ fill_price' = Some(trade_history[Len(trade_history)].price)
            /\ pnl' = Some(MidPrice(initial_bid, initial_ask)
                           - trade_history[Len(trade_history)].price)
       ELSE /\ fill_price' = None
            /\ pnl' = None
    /\ pc' = "done"
    /\ UNCHANGED << inputs, time, step, orderbook_history, trade_history,
                    best_bid, best_ask, human_order, target_price, filled,
                    mid, pushes >>

Next == PushFill \/ PushNoFill \/ NoPush \/ Summary

Spec == Init /\ [][Next]_vars

\* The script is one sequential pass: whatever statement is next, runs.
FairSpec == Spec /\ WF_vars(Next)

-----------------------------------------------------------------------------
(* Vocabulary of the properties. *)

NSnapshots == Len(orderbook_history)

LastSnapshot == orderbook_history[NSnapshots]

HasTrade == trade_history # << >>

LoopOver == pc \in {"summary", "done"}

\* A snapshot carrying the unpushed quotes.
Flat(s) == s.best_bid = initial_bid /\ s.best_ask = initial_ask

\* 2 * mid >= 2 * target for the quotes of a first push, in exact arithmetic:
\* (human_limit_price + initial_ask + 2 * push_step) / 2
\*    >= fair_price * target_multiplier, the multiplier being in tenths.
FirstPushReachesTarget ==
    10 * (human_limit_price + initial_ask + 2 * push_step)
        >= 2 * fair_price * target_multiplier

\* Scenario A: the default inputs.
ScenarioA ==
    /\ fair_price = Px(40) /\ initial_bid = Px(20) /\ initial_ask = Px(100)
    /\ human_limit_price = Px(21) /\ push_step = Halves(4)
    /\ target_multiplier = 12

\* Scenario B: humanLimitPrice = 15, all else default.
ScenarioB ==
    /\ fair_price = Px(40) /\ initial_bid = Px(20) /\ initial_ask = Px(100)
    /\ human_limit_price = Px(15) /\ push_step = Halves(4)
    /\ target_multiplier = 12

\* Scenario C: pushStep = 0.5, targetMultiplier = 2.0, humanLimitPrice = 21.
ScenarioC ==
    /\ fair_price = Px(40) /\ initial_bid = Px(20) /\ initial_ask = Px(100)
    /\ human_limit_price = Px(21) /\ push_step = Halves(1)
    /\ target_multiplier = 20

-----------------------------------------------------------------------------
\* C1: in every state of a run trade_history has length 0 or 1, and once a
\* trade has been recorded no later step changes trade_history.
C1_AtMostOneTrade ==
    /\ [](Len(trade_history) <= 1)
    /\ [][HasTrade => trade_history' = trade_history]_vars

\* A trade has been recorded and the run has gone on to its end.
C1_Witness == Len(trade_history) = 1 /\ pc = "done"

\* C2: every recorded trade has price fair_price * target_multiplier (the
\* multiplier in tenths, hence 10 * price), buyer "human", seller "algo" and
\* size 1, whatever mid price met the fill condition.
C2_FillPrice ==
    \A i \in 1..Len(trade_history) :
        LET tr == trade_history[i]
        IN  /\ 10 * tr.price = fair_price * target_multiplier
            /\ tr.buyer = "human"
            /\ tr.seller = "algo"
            /\ tr.size = 1

\* A trade whose triggering mid price lies strictly above the target price.
C2_Witness ==
    /\ HasTrade
    /\ mid # None
    /\ mid[1] > target_price
    /\ trade_history[1].price = target_price

\* C3: once a trade is recorded at time t, the snapshot appended after the
\* push snapshot of time t carries initial_bid, initial_ask and time t + 0.1,
\* it is the last snapshot, and no later step appends another.
C3_PostFillRevert ==
    /\ [](HasTrade =>
            /\ NSnapshots >= 3
            /\ orderbook_history[NSnapshots - 1].time = trade_history[1].time
            /\ LastSnapshot.best_bid = initial_bid
            /\ LastSnapshot.best_ask = initial_ask
            /\ LastSnapshot.time = trade_history[1].time + 1
            /\ best_bid = initial_bid
            /\ best_ask = initial_ask
            /\ pc # "loop")
    /\ [][HasTrade => orderbook_history' = orderbook_history]_vars

\* A fill whose push had moved both quotes away from the initial ones, with
\* the run finished after the revert snapshot.
C3_Witness ==
    /\ HasTrade
    /\ pc = "done"
    /\ ~Flat(orderbook_history[NSnapshots - 1])
    /\ Flat(LastSnapshot)
    /\ step < max_steps

\* C4: the run terminates; the snapshot sequence always has between 1 and
\* max_steps + 2 = 17 entries, the first at time 0; after the loop it has
\* exactly max_steps + 1 = 16 entries when no fill occurred and at most
\* max_steps + 2 when one did.
C4_BoundedRun ==
    /\ <>(pc = "done")
    /\ [](/\ NSnapshots >= 1
          /\ NSnapshots <= max_steps + 2
          /\ NSnapshots <= 17
          /\ orderbook_history[1].time = 0)
    /\ [](LoopOver /\ ~HasTrade => NSnapshots = max_steps + 1 /\ NSnapshots = 16)
    /\ [](LoopOver /\ HasTrade => NSnapshots <= max_steps + 2)

\* A finished run without a fill, with its 16 snapshots.
C4_Witness == pc = "done" /\ ~HasTrade /\ NSnapshots = 16

\* C5: if human_limit_price <= initial_bid then every snapshot is flat, the
\* i-th one has time i - 1, there is no trade, filled is false and pnl is
\* absent; after the loop there are exactly max_steps + 1 snapshots (times
\* 0 .. 15).  Scenario B ends with 16 flat snapshots and no trade.
C5_NoPushNoTrade ==
    human_limit_price <= initial_bid =>
        /\ \A i \in 1..NSnapshots :
              /\ Flat(orderbook_history[i])
              /\ orderbook_history[i].time = 10 * (i - 1)
        /\ ~HasTrade
        /\ ~filled
        /\ pnl = None
        /\ fill_price = None
        /\ pushes = << >>
        /\ LoopOver => NSnapshots = max_steps + 1
        /\ ScenarioB /\ LoopOver => NSnapshots = 16

\* Scenario B finished, with its 16 snapshots.
C5_Witness == ScenarioB /\ pc = "done" /\ NSnapshots = 16 /\ ~HasTrade

\* C6: with the default inputs the finished run has exactly one trade, at
\* time 1 with price 48, and exactly the three snapshots (0, 20, 100),
\* (1, 23, 102, mid 62.5) and (1.1, 20, 100).
C6_ScenarioA ==
    ScenarioA /\ LoopOver =>
        /\ Len(trade_history) = 1
        /\ trade_history[1].time = 10
        /\ trade_history[1].price = Px(48)
        /\ NSnapshots = 3
        /\ orderbook_history[1].time = 0
        /\ orderbook_history[1].best_bid = Px(20)
        /\ orderbook_history[1].best_ask = Px(100)
        /\ orderbook_history[2].time = 10
        /\ orderbook_history[2].best_bid = Px(23)
        /\ orderbook_history[2].best_ask = Px(102)
        /\ orderbook_history[2].mid_price = Px(62) + Halves(1)
        /\ orderbook_history[3].time = 11
        /\ orderbook_history[3].best_bid = Px(20)
        /\ orderbook_history[3].best_ask = Px(100)

\* The default run, finished.
C6_Witness == ScenarioA /\ pc = "done" /\ filled

\* C7 as stated: a push that does not bring the mid price to target_price is
\* repeated on the later steps, so that best_ask accumulates: in Scenario C
\* every step raises best_ask by 0.5 and sets best_bid to 21.5 until the mid
\* reaches 80 or the 15 steps are exhausted.
C7_PushRepeats ==
    ScenarioC /\ ~filled =>
        /\ best_ask = initial_ask + step * push_step
        /\ step >= 1 => best_bid = Px(21) + Halves(1)

\* C7, amended: a push that does not bring the mid price to target_price is
\* not repeated.  The snapshot of a triggering step has best_ask equal to the
\* previous snapshot's plus push_step and best_bid equal to human_limit_price
\* + push_step; after it the push condition is false, so there is at most
\* one triggering step.  In Scenario C step 1 sets best_bid = 21.5 and
\* best_ask = 100.5 (mid 61 < 80) and the quotes stay there, unfilled, for
\* the remaining steps.
C7_PushNotRepeated ==
    /\ \A i \in 2..NSnapshots :
          (\E k \in 1..Len(pushes) : pushes[k] = orderbook_history[i].time) =>
              /\ orderbook_history[i].best_ask =
                    orderbook_history[i - 1].best_ask + push_step
              /\ orderbook_history[i].best_bid = human_limit_price + push_step
    /\ pushes # << >> => ~(human_limit_price > best_bid /\ ~filled)
    /\ Len(pushes) <= 1
    /\ ScenarioC /\ step >= 1 =>
          /\ best_bid = Px(21) + Halves(1)
          /\ best_ask = Px(100) + Halves(1)
          /\ mid = Some(Px(61))
          /\ pushes = << 10 >>
          /\ ~filled
          /\ ~HasTrade

\* Scenario C with its step budget exhausted after the single push.
C7_Witness ==
    /\ ScenarioC
    /\ step = max_steps
    /\ pushes = << 10 >>
    /\ best_ask = initial_ask + push_step
    /\ NSnapshots = 16

\* C8: the filled quantity starts at 0, is 0 or 1 and never above size, never
\* decreases, and changes only from 0 to 1 on a step that pushed and whose
\* mid price met target_price; it is 1 exactly when filled is true and a
\* trade is recorded; when the 15 steps are exhausted without a fill it is
\* 0, filled is false and there is no trade.
C8_FilledQuantity ==
    /\ human_order.filled = 0
    /\ [](/\ human_order.filled \in {0, 1}
          /\ human_order.filled <= human_order.size
          /\ human_order.size = 1
          /\ (human_order.filled = 1) <=> filled
          /\ filled <=> HasTrade)
    /\ [][/\ human_order'.filled >= human_order.filled
          /\ human_order'.filled # human_order.filled =>
                /\ human_order.filled = 0
                /\ human_order'.filled = 1
                /\ pushes' # pushes
                /\ mid'[1] >= target_price]_vars
    /\ [](step = max_steps /\ ~HasTrade =>
             human_order.filled = 0 /\ ~filled)

\* The order filled, the run finished.
C8_Witness == human_order.filled = 1 /\ filled /\ pc = "done"

\* C9: a snapshot's human_bid is absent when it was recorded after the fill
\* (the order no longer open) and human_limit_price otherwise; in a run with
\* a fill the revert snapshot, the last one, is the only one without the
\* quote, and the push snapshot carrying the trade's time still shows it.
C9_HumanQuote ==
    /\ \A i \in 1..NSnapshots :
          LET s == orderbook_history[i]
              afterFill == HasTrade /\ s.time > trade_history[1].time
          IN  /\ s.human_bid =
                    IF afterFill THEN None ELSE Some(human_limit_price)
              /\ afterFill => i = NSnapshots
    /\ HasTrade =>
          /\ LastSnapshot.human_bid = None
          /\ orderbook_history[NSnapshots - 1].time = trade_history[1].time
          /\ orderbook_history[NSnapshots - 1].human_bid =
                Some(human_limit_price)
    /\ ~HasTrade => LastSnapshot.human_bid = Some(human_limit_price)

\* The revert snapshot without the quote, after a push snapshot with it.
C9_Witness ==
    /\ HasTrade
    /\ LastSnapshot.human_bid = None
    /\ orderbook_history[NSnapshots - 1].human_bid = Some(human_limit_price)

\* C10: the push branch runs at most once and only on step 1; best_ask never
\* exceeds initial_ask + push_step; a trade is recorded at time 1; and once
\* step 1 has run a trade exists if and only if human_limit_price >
\* initial_bid and (human_limit_price + initial_ask + 2 * push_step) / 2 >=
\* fair_price * target_multiplier.
C10_SinglePush ==
    /\ Len(pushes) <= 1
    /\ \A k \in 1..Len(pushes) : pushes[k] = 10
    /\ best_ask <= initial_ask + push_step
    /\ \A i \in 1..NSnapshots :
          orderbook_history[i].best_ask <= initial_ask + push_step
    /\ \A i \in 1..Len(trade_history) : trade_history[i].time = 10
    /\ step >= 1 =>
          (HasTrade <=>
              human_limit_price > initial_bid /\ FirstPushReachesTarget)

\* A run that pushed on step 1 without reaching the target and then took the
\* else branch on every later step.
C10_Witness ==
    /\ pc = "done"
    /\ pushes = << 10 >>
    /\ ~HasTrade
    /\ human_limit_price > initial_bid
    /\ ~FirstPushReachesTarget
    /\ step = max_steps

=============================================================================
